---------------------------- MODULE Spec2Model ----------------------------
(***************************************************************************)
(* Model of vaccine-checker: the driving loop of main (ticker, interrupt   *)
(* context, select) around Checker.Check, Checker.handle,                  *)
(* Checker.alreadyFound and Checker.notify.                                *)
(*                                                                         *)
(* A feature of the geojson collection is a record                         *)
(*   id     : <<>> when Properties has no numeric "id", <<n>> otherwise    *)
(*   avail  : Properties.MustBool("appointments_available", false)         *)
(*   second : Properties.MustBool("appointments_available_2nd_dose_only",  *)
(*            false)                                                       *)
(*   point  : whether Geometry is an orb.Point                             *)
(*   dist   : geo.Distance(Geometry, Location) in meters (0 if no point)   *)
(***************************************************************************)
EXTENDS Integers, Sequences, FiniteSets, TLC

VARIABLES
    cfg,          \* viper settings read by the checker, fixed at startup
    pc,           \* position of main: loop, searchWait, notifyWait, select, exited, crashed
    ctxDone,      \* ctx.Done() is closed (an interrupt was delivered)
    tickPending,  \* a tick is buffered in ticker.C (capacity 1)
    lastFound,    \* Checker.lastFound
    prevOK,       \* the cycle before this one fetched, decoded and ran handle to its end
    searchResult, \* how this cycle's search round trip ended
    fc,           \* the collection decoded in this cycle (handle's argument)
    available,    \* handle's counter available in this cycle
    found,        \* handle's local found, as the most recent handle call left it
    foundNew,     \* handle's local foundNew in this cycle
    notifyRet,    \* what notify returned in this cycle (handle drops it)
    notifySent,   \* notification requests issued in this cycle
    logged,       \* the error main wrote to stderr for this cycle, or "none"
    notifyResp,   \* how this cycle's notification round trip ended, if there was one
    params,       \* what the flags, the environment and the config file gave at startup
    invalid,      \* the errors validateParams returned, in order
    exitCode,     \* <<n>> once exitFunc(n) was called, <<>> before
    dropped       \* history, <<>> where none is kept: <<the valid identifiers that the
                  \* last completed cycle no longer found>>

vars == <<cfg, pc, ctxDone, tickPending, lastFound, prevOK, searchResult, fc,
          available, found, foundNew, notifyRet, notifySent, logged, notifyResp,
          params, invalid, exitCode, dropped>>

\* The part of the state only main's startup and exit write.
bootVars == <<params, invalid, exitCode>>

---------------------------------------------------------------------------
(* Bounds and program constants *)

\* Longest feature collection a search response carries.
MaxFeatures == 2

\* Longest feature collection handle is applied to on its own (HandleSpec).
MaxCollection == 3

metersPerKilometer == 1000
defaultDistanceKilometers == 10
defaultSearchTimeout == 20
defaultNotificationTimeout == 10
\* http.DefaultClient is the zero http.Client: Timeout 0 means no timeout.
DefaultClientTimeout == 0
StatusOK == 200

---------------------------------------------------------------------------
(* Checker, as NewChecker builds it *)

Distance == defaultDistanceKilometers * metersPerKilometer

searchClient == [Timeout |-> defaultSearchTimeout]

notifyClient == [Timeout |-> defaultNotificationTimeout]

DefaultClient == [Timeout |-> DefaultClientTimeout]

---------------------------------------------------------------------------
(* Inputs *)

Site(id, avail, second, point, dist) ==
    [id |-> id, avail |-> avail, second |-> second, point |-> point, dist |-> dist]

\* The sites a search response may list.
Sites ==
    { Site(<<1>>,  TRUE,  FALSE, TRUE,  5000),      \* available, in range
      Site(<<2>>,  TRUE,  FALSE, TRUE,  Distance),  \* available, exactly at the radius
      Site(<<>>,   TRUE,  FALSE, TRUE,  5000),      \* available, no identifier
      Site(<<-1>>, TRUE,  FALSE, TRUE,  5000),      \* available, identifier -1
      Site(<<1>>,  TRUE,  FALSE, TRUE,  50000),     \* available, out of range
      Site(<<2>>,  FALSE, FALSE, TRUE,  1000),      \* unavailable, in range
      Site(<<2>>,  TRUE,  TRUE,  TRUE,  5000),      \* second dose only, in range
      Site(<<1>>,  TRUE,  FALSE, FALSE, 0) }        \* available, geometry is no point

SeqsUpTo(S, n) == UNION { [1..k -> S] : k \in 0..n }

FeatureCollections == SeqsUpTo(Sites, MaxFeatures)

\* What searchClient.Do and the JSON decoder can produce.
SearchResponses ==
    { [kind |-> "error", fc |-> <<>>], [kind |-> "undecodable", fc |-> <<>>] }
      \cup { [kind |-> "decoded", fc |-> c] : c \in FeatureCollections }

\* What http.DefaultClient.Do can produce for the notification request.
NotifyResponses ==
    { [kind |-> "error", status |-> 0] }
      \cup { [kind |-> "response", status |-> s] : s \in {StatusOK, 201, 500} }

\* searchRequestOK, notificationRequestOK: http.NewRequest accepts the configured
\* method and URL. A setting the program never reads under the others is left at
\* its default.
Configs ==
    { c \in [silent : BOOLEAN, includeSecondDoseOnly : BOOLEAN,
             searchRequestOK : BOOLEAN, notificationRequestOK : BOOLEAN] :
        /\ c.silent => c.notificationRequestOK
        /\ ~c.searchRequestOK =>
              (~c.silent /\ ~c.includeSecondDoseOnly /\ c.notificationRequestOK) }

---------------------------------------------------------------------------
(* Pure helpers *)

\* geojson.Properties.MustInt(key, def): the number, or def when it is absent.
MustInt(v, def) == IF Len(v) = 0 THEN def ELSE v[1]

\* alreadyFound without the early return for an identifier of -1.
alreadyFound_NoSentinelCheck(f, last) ==
    LET id == MustInt(f.id, -1)
    IN  \E i \in 1..Len(last) : MustInt(last[i].id, id) = id

\* alreadyFound that remembers nothing (the variant of the program without dedupe).
alreadyFound_Never(f, last) == FALSE

alreadyFound(f, last) ==
    LET id == MustInt(f.id, -1)
    IN  IF id = -1
        THEN FALSE
        ELSE \E i \in 1..Len(last) : MustInt(last[i].id, id) = id

\* handle's loop body counting a site as available only once it is in range.
handleStep_CountInRangeOnly(acc, f, last, includeSecond) ==
    IF ~f.avail THEN acc
    ELSE IF ~includeSecond /\ f.second THEN acc
    ELSE IF ~f.point
         THEN [acc EXCEPT !.panicked = TRUE]
    ELSE IF f.dist <= Distance
         THEN [acc EXCEPT !.available = @ + 1,
                          !.found = Append(@, f),
                          !.foundNew = IF alreadyFound(f, last)
                                       THEN @ ELSE Append(@, f)]
    ELSE acc

\* handle's loop body with a strict distance test.
handleStep_StrictRadius(acc, f, last, includeSecond) ==
    IF ~f.avail THEN acc
    ELSE IF ~includeSecond /\ f.second THEN acc
    ELSE IF ~f.point
         THEN [acc EXCEPT !.available = @ + 1, !.panicked = TRUE]
    ELSE IF f.dist < Distance
         THEN [acc EXCEPT !.available = @ + 1,
                          !.found = Append(@, f),
                          !.foundNew = IF alreadyFound(f, last)
                                       THEN @ ELSE Append(@, f)]
    ELSE [acc EXCEPT !.available = @ + 1]

\* One iteration of handle's loop over fc.Features.
handleStep(acc, f, last, includeSecond) ==
    IF ~f.avail THEN acc
    ELSE IF ~includeSecond /\ f.second THEN acc
    ELSE IF ~f.point
         THEN [acc EXCEPT !.available = @ + 1, !.panicked = TRUE]
    ELSE IF f.dist <= Distance
         THEN [acc EXCEPT !.available = @ + 1,
                          !.found = Append(@, f),
                          !.foundNew = IF alreadyFound(f, last)
                                       THEN @ ELSE Append(@, f)]
    ELSE [acc EXCEPT !.available = @ + 1]

RECURSIVE handleLoop(_, _, _, _, _)
handleLoop(features, i, acc, last, includeSecond) ==
    IF i > Len(features) \/ acc.panicked
    THEN acc
    ELSE handleLoop(features, i + 1,
                    handleStep(acc, features[i], last, includeSecond),
                    last, includeSecond)

handleScan(features, last, includeSecond) ==
    handleLoop(features, 1,
               [available |-> 0, found |-> <<>>, foundNew |-> <<>>, panicked |-> FALSE],
               last, includeSecond)

\* The Timeout of the client whose request is in flight.
InFlightTimeout ==
    IF pc = "searchWait" THEN searchClient.Timeout
    ELSE IF pc = "notifyWait" THEN DefaultClient.Timeout
    ELSE 0

NoResponse == [kind |-> "none", status |-> 0]

\* notify taking every 2xx status for success.
notifyResult_Any2xx(r) ==
    IF r.kind = "error" THEN "transport"
    ELSE IF r.status < 200 \/ r.status > 299 THEN "status"
    ELSE "nil"

\* notify's result for a completed round trip.
notifyResult(r) ==
    IF r.kind = "error" THEN "transport"
    ELSE IF r.status # StatusOK THEN "status"
    ELSE "nil"

---------------------------------------------------------------------------
(* Startup *)

errMissingLatitude == "missing --latitude"
errMissingLongitude == "missing --longitude"
errMissingNotificationURL == "missing --notification-url"

\* flags: how flags.Parse ends; configFile: how viper.ReadInConfig ends;
\* latitudeSet, longitudeSet: viper.IsSet; notificationURL: viper.GetString.
Params ==
    [flags : {"ok", "help", "bad"},
     configFile : {"read", "notfound", "unreadable"},
     latitudeSet : BOOLEAN, longitudeSet : BOOLEAN,
     notificationURL : {"", "https://api.virtualbuttons.com/v1"}]

\* The settings of a process that has reached the loop.
RunningParams ==
    [flags |-> "ok", configFile |-> "read", latitudeSet |-> TRUE, longitudeSet |-> TRUE,
     notificationURL |-> "https://api.virtualbuttons.com/v1"]

\* The error viper.ReadInConfig returns: a ConfigFileNotFoundError by value when
\* no config file is on the path, some other error when one cannot be read.
ReadInConfigError(p) ==
    IF p.configFile = "notfound"
    THEN [type |-> "viper.ConfigFileNotFoundError", ref |-> "value"]
    ELSE [type |-> "viper.ConfigParseError", ref |-> "value"]

\* &viper.ConfigFileNotFoundError{}: a pointer to a new zero value.
NotFoundTarget == [type |-> "viper.ConfigFileNotFoundError", ref |-> "pointer"]

\* errors.Is for errors that neither wrap another error nor have an Is method:
\* err == target.
errorsIs(err, target) == err = target

\* validateParams stopping at the first violation.
validateParams_FailFast(p, silent) ==
    IF ~p.latitudeSet THEN <<errMissingLatitude>>
    ELSE IF ~p.longitudeSet THEN <<errMissingLongitude>>
    ELSE IF ~silent /\ p.notificationURL = "" THEN <<errMissingNotificationURL>>
    ELSE <<>>

\* The errors validateParams appends to its multierror; none is ErrorOrNil's nil.
validateParams(p, silent) ==
    LET r1 == IF ~p.latitudeSet THEN <<errMissingLatitude>> ELSE <<>>
        r2 == IF ~p.longitudeSet THEN Append(r1, errMissingLongitude) ELSE r1
        r3 == IF ~silent /\ p.notificationURL = ""
              THEN Append(r2, errMissingNotificationURL) ELSE r2
    IN  r3

---------------------------------------------------------------------------
(* Steps *)

Running == pc \notin {"exited", "crashed"}

Init ==
    /\ cfg \in Configs
    /\ pc = "loop"
    /\ ctxDone = FALSE
    /\ tickPending = FALSE
    /\ lastFound = <<>>
    /\ prevOK = FALSE
    /\ searchResult = "none"
    /\ fc = <<>>
    /\ available = 0
    /\ found = <<>>
    /\ foundNew = <<>>
    /\ notifyRet = "notcalled"
    /\ notifySent = 0
    /\ logged = "none"
    /\ notifyResp = NoResponse
    /\ params = RunningParams
    /\ invalid = <<>>
    /\ exitCode = <<>>
    /\ dropped = <<>>

\* Check returns err to main, which writes it to stderr and goes to the select.
CheckReturns(err) ==
    /\ logged' = err
    /\ pc' = "select"

\* The valid identifiers of the sites in q.
ValidIds(q) == { q[i].id : i \in 1..Len(q) } \ {<<>>, <<-1>>}

\* History kept when handle ends with found = fnd: the valid identifiers that the
\* cycle just before, if it was handled to its end, had in its found list and that
\* fnd no longer has.
Dropped(fnd) ==
    IF dropped = <<>> THEN <<>>
    ELSE IF prevOK THEN <<ValidIds(lastFound) \ ValidIds(fnd)>>
    ELSE <<{}>>

\* handle returning early when notify failed, before lastFound is replaced.
handleFinish_KeepOnError(ret, fnd) ==
    /\ notifyRet' = ret
    /\ lastFound' = IF ret \in {"create", "transport", "status"} THEN lastFound ELSE fnd
    /\ dropped' = Dropped(fnd)
    /\ CheckReturns("none")

\* handle that never replaces lastFound.
handleFinish_NoUpdate(ret, fnd) ==
    /\ notifyRet' = ret
    /\ UNCHANGED lastFound
    /\ dropped' = Dropped(fnd)
    /\ CheckReturns("none")

\* handle's tail once notify has returned ret: lastFound = found, return nil.
handleFinish(ret, fnd) ==
    /\ notifyRet' = ret
    /\ lastFound' = fnd
    /\ dropped' = Dropped(fnd)
    /\ CheckReturns("none")

\* main calls checker.Check: the search request is built and sent.
Check ==
    /\ pc = "loop"
    /\ prevOK' = (searchResult = "decoded")
    /\ notifyRet' = "notcalled"
    /\ notifySent' = 0
    /\ IF cfg.searchRequestOK
       THEN /\ pc' = "searchWait"
            /\ logged' = "none"
            /\ searchResult' = "pending"
       ELSE /\ searchResult' = "unbuilt"
            /\ CheckReturns("create")
    /\ fc' = <<>>
    /\ available' = 0
    /\ foundNew' = <<>>
    /\ notifyResp' = NoResponse
    /\ UNCHANGED <<cfg, ctxDone, tickPending, lastFound, found, bootVars, dropped>>

\* notify without the check of the silent setting.
notify_IgnoreSilent(fnd) ==
    IF ~cfg.notificationRequestOK
    THEN /\ handleFinish("create", fnd)
         /\ UNCHANGED notifySent
    ELSE /\ pc' = "notifyWait"
         /\ notifySent' = notifySent + 1
         /\ UNCHANGED <<lastFound, notifyRet, logged, dropped>>

\* notify(ctx, foundNew) up to the point where the request is in flight.
notify(fnd) ==
    IF cfg.silent
    THEN /\ handleFinish("nil", fnd)
         /\ UNCHANGED notifySent
    ELSE IF ~cfg.notificationRequestOK
    THEN /\ handleFinish("create", fnd)
         /\ UNCHANGED notifySent
    ELSE /\ pc' = "notifyWait"
         /\ notifySent' = notifySent + 1
         /\ UNCHANGED <<lastFound, notifyRet, logged, dropped>>

\* handle notifying whenever a site is found, new or not.
handle_NotifyOnFound(c) ==
    LET r == handleScan(c, lastFound, cfg.includeSecondDoseOnly)
    IN  /\ fc' = c
        /\ available' = r.available
        /\ found' = r.found
        /\ foundNew' = r.foundNew
        /\ IF r.panicked
           THEN /\ pc' = "crashed"
                /\ UNCHANGED <<lastFound, notifyRet, notifySent, logged, dropped>>
           ELSE IF Len(r.found) > 0
           THEN notify(r.found)
           ELSE /\ handleFinish("notcalled", r.found)
                /\ UNCHANGED notifySent

\* handle(fc) up to the point where notify blocks or handle returns.
handle(c) ==
    LET r == handleScan(c, lastFound, cfg.includeSecondDoseOnly)
    IN  /\ fc' = c
        /\ available' = r.available
        /\ found' = r.found
        /\ foundNew' = r.foundNew
        /\ IF r.panicked
           THEN /\ pc' = "crashed"
                /\ UNCHANGED <<lastFound, notifyRet, notifySent, logged, dropped>>
           ELSE IF Len(r.foundNew) > 0
           THEN notify(r.found)
           ELSE /\ handleFinish("notcalled", r.found)
                /\ UNCHANGED notifySent

\* Check going on to handle an empty collection when the decoder fails.
SearchResponds_IgnoreDecodeError(r) ==
    /\ searchResult' = r.kind
    /\ IF r.kind = "error"
       THEN /\ CheckReturns("fetch")
            /\ UNCHANGED <<lastFound, fc, available, found, foundNew, notifyRet, notifySent,
                           dropped>>
       ELSE handle(r.fc)

\* Check forgetting lastFound when the search round trip fails.
SearchResponds_ClearOnError(r) ==
    /\ searchResult' = r.kind
    /\ IF r.kind \in {"error", "undecodable"}
       THEN /\ CheckReturns(IF r.kind = "error" THEN "fetch" ELSE "decode")
            /\ lastFound' = <<>>
            /\ UNCHANGED <<fc, available, found, foundNew, notifyRet, notifySent, dropped>>
       ELSE handle(r.fc)

\* searchClient.Do returns and the body is decoded.
SearchResponds(r) ==
    /\ searchResult' = r.kind
    /\ IF r.kind = "error"
       THEN /\ CheckReturns("fetch")
            /\ UNCHANGED <<lastFound, fc, available, found, foundNew, notifyRet, notifySent,
                           dropped>>
       ELSE IF r.kind = "undecodable"
       THEN /\ CheckReturns("decode")
            /\ UNCHANGED <<lastFound, fc, available, found, foundNew, notifyRet, notifySent,
                           dropped>>
       ELSE handle(r.fc)

Check_Do ==
    /\ pc = "searchWait"
    /\ \E r \in SearchResponses : SearchResponds(r)
    /\ UNCHANGED <<cfg, ctxDone, tickPending, prevOK, notifyResp, bootVars>>

\* http.DefaultClient.Do returns inside notify.
notify_Do ==
    /\ pc = "notifyWait"
    /\ \E r \in NotifyResponses :
          /\ notifyResp' = r
          /\ handleFinish(notifyResult(r), found)
    /\ UNCHANGED <<cfg, ctxDone, tickPending, prevOK, searchResult, fc, available,
                   found, foundNew, notifySent, bootVars>>

\* The Timeout of the client that sent the request in flight expires.
ClientTimeout ==
    /\ pc \in {"searchWait", "notifyWait"}
    /\ InFlightTimeout > 0
    /\ IF pc = "searchWait"
       THEN /\ searchResult' = "error"
            /\ CheckReturns("fetch")
            /\ UNCHANGED <<lastFound, notifyRet, notifyResp, dropped>>
       ELSE /\ notifyResp' = [kind |-> "error", status |-> 0]
            /\ handleFinish("transport", found)
            /\ UNCHANGED searchResult
    /\ UNCHANGED <<cfg, ctxDone, tickPending, prevOK, fc, available, found, foundNew,
                   notifySent, bootVars>>

\* select picks case <-ctx.Done(): quitter runs and exits with code 0.
selectDone ==
    /\ pc = "select"
    /\ ctxDone
    /\ pc' = "exited"
    /\ exitCode' = <<0>>
    /\ UNCHANGED <<cfg, ctxDone, tickPending, lastFound, prevOK, searchResult, fc, available,
                   found, foundNew, notifyRet, notifySent, logged,
                   notifyResp, params, invalid, dropped>>

\* A select that goes round the loop without waiting for a tick (a default case).
selectTick_NoWait ==
    /\ pc = "select"
    /\ tickPending' = FALSE
    /\ pc' = "loop"
    /\ UNCHANGED <<cfg, ctxDone, lastFound, prevOK, searchResult, fc, available, found,
                   foundNew, notifyRet, notifySent, logged,
                   notifyResp, bootVars, dropped>>

\* select picks case <-ticker.C: continue.
selectTick ==
    /\ pc = "select"
    /\ tickPending
    /\ tickPending' = FALSE
    /\ pc' = "loop"
    /\ UNCHANGED <<cfg, ctxDone, lastFound, prevOK, searchResult, fc, available, found,
                   foundNew, notifyRet, notifySent, logged,
                   notifyResp, bootVars, dropped>>

\* The ticker, created before the loop, fires; a tick is dropped when one is buffered.
Tick ==
    /\ Running
    /\ ~tickPending
    /\ tickPending' = TRUE
    /\ UNCHANGED <<cfg, pc, ctxDone, lastFound, prevOK, searchResult, fc, available, found,
                   foundNew, notifyRet, notifySent, logged,
                   notifyResp, bootVars, dropped>>

\* os.Interrupt is delivered: signal.NotifyContext cancels ctx.
Interrupt ==
    /\ Running
    /\ ~ctxDone
    /\ ctxDone' = TRUE
    /\ UNCHANGED <<cfg, pc, tickPending, lastFound, prevOK, searchResult, fc, available, found,
                   foundNew, notifyRet, notifySent, logged,
                   notifyResp, bootVars, dropped>>

Next ==
    \/ Check
    \/ Check_Do
    \/ notify_Do
    \/ ClientTimeout
    \/ selectDone
    \/ selectTick
    \/ Tick
    \/ Interrupt

Spec == Init /\ [][Next]_vars

\* The program's own steps and its timers run; the endpoints and the user owe nothing.
FairSpec ==
    /\ Spec
    /\ WF_vars(Check)
    /\ WF_vars(ClientTimeout)
    /\ WF_vars(selectDone)
    /\ WF_vars(Tick)
    /\ SF_vars(selectTick)

---------------------------------------------------------------------------
(* The loop with the history of dropped identifiers kept *)

DedupeInit ==
    /\ cfg \in Configs
    /\ pc = "loop"
    /\ ctxDone = FALSE
    /\ tickPending = FALSE
    /\ lastFound = <<>>
    /\ prevOK = FALSE
    /\ searchResult = "none"
    /\ fc = <<>>
    /\ available = 0
    /\ found = <<>>
    /\ foundNew = <<>>
    /\ notifyRet = "notcalled"
    /\ notifySent = 0
    /\ logged = "none"
    /\ notifyResp = NoResponse
    /\ params = RunningParams
    /\ invalid = <<>>
    /\ exitCode = <<>>
    /\ dropped = <<{}>>

DedupeSpec == DedupeInit /\ [][Next]_vars

---------------------------------------------------------------------------
(* main from its first line to the loop *)

loopVars == <<cfg, ctxDone, tickPending, lastFound, prevOK, searchResult, fc, available,
              found, foundNew, notifyRet, notifySent, logged, notifyResp>>

StartupInit ==
    /\ cfg \in Configs
    /\ params \in Params
    /\ pc = "parseFlags"
    /\ ctxDone = FALSE
    /\ tickPending = FALSE
    /\ lastFound = <<>>
    /\ prevOK = FALSE
    /\ searchResult = "none"
    /\ fc = <<>>
    /\ available = 0
    /\ found = <<>>
    /\ foundNew = <<>>
    /\ notifyRet = "notcalled"
    /\ notifySent = 0
    /\ logged = "none"
    /\ notifyResp = NoResponse
    /\ invalid = <<>>
    /\ exitCode = <<>>
    /\ dropped = <<>>

exitFunc(n) ==
    /\ pc' = "exited"
    /\ exitCode' = <<n>>

\* flags.Parse: exit 0 on --help, exit 1 on any other error.
parseFlags ==
    /\ pc = "parseFlags"
    /\ IF params.flags = "help" THEN exitFunc(0)
       ELSE IF params.flags = "bad" THEN exitFunc(1)
       ELSE pc' = "readConfig" /\ UNCHANGED exitCode
    /\ UNCHANGED <<loopVars, params, invalid, dropped>>

\* viper.ReadInConfig and the test of its error.
readInConfig ==
    /\ pc = "readConfig"
    /\ IF params.configFile = "read"
       THEN pc' = "validate" /\ UNCHANGED exitCode
       ELSE IF ~errorsIs(ReadInConfigError(params), NotFoundTarget)
       THEN exitFunc(2)
       ELSE pc' = "validate" /\ UNCHANGED exitCode
    /\ UNCHANGED <<loopVars, params, invalid, dropped>>

\* validateParams, then exit 3 or NewChecker, the ticker and the loop.
validate ==
    /\ pc = "validate"
    /\ invalid' = validateParams(params, cfg.silent)
    /\ IF Len(invalid') > 0
       THEN exitFunc(3)
       ELSE pc' = "loop" /\ UNCHANGED exitCode
    /\ UNCHANGED <<loopVars, params, dropped>>

StartupNext ==
    \/ parseFlags
    \/ readInConfig
    \/ validate

StartupSpec == StartupInit /\ [][StartupNext]_vars

---------------------------------------------------------------------------
(* handle on its own: one search round trip in flight, with lastFound left by an *)
(* earlier cycle, answered by a decoded collection of up to MaxCollection sites. *)

\* len(fc.Features), as handle's summary line prints it.
total == Len(fc)

\* The FoundSets a cycle on a one-site collection leaves in lastFound.
EarlierFoundSets(includeSecond) ==
    { handleScan(c, <<>>, includeSecond).found :
        c \in { d \in SeqsUpTo(Sites, 1) : ~handleScan(d, <<>>, includeSecond).panicked } }

HandleInit ==
    /\ cfg \in { c \in Configs : c.searchRequestOK }
    /\ pc = "searchWait"
    /\ ctxDone = FALSE
    /\ tickPending = FALSE
    /\ lastFound \in EarlierFoundSets(cfg.includeSecondDoseOnly)
    /\ prevOK = TRUE
    /\ searchResult = "pending"
    /\ fc = <<>>
    /\ available = 0
    /\ found = lastFound
    /\ foundNew = <<>>
    /\ notifyRet = "notcalled"
    /\ notifySent = 0
    /\ logged = "none"
    /\ notifyResp = NoResponse
    /\ params = RunningParams
    /\ invalid = <<>>
    /\ exitCode = <<>>
    /\ dropped = <<>>

\* searchClient.Do returns a body that decodes, and handle runs on it.
Check_Decoded ==
    /\ pc = "searchWait"
    /\ \E c \in SeqsUpTo(Sites, MaxCollection) :
          SearchResponds([kind |-> "decoded", fc |-> c])
    /\ UNCHANGED <<cfg, ctxDone, tickPending, prevOK, notifyResp, bootVars>>

HandleSpec == HandleInit /\ [][Check_Decoded]_vars

---------------------------------------------------------------------------
(* Properties *)

InSeq(x, q) == \E i \in 1..Len(q) : q[i] = x

\* A site whose identifier is missing or is the sentinel -1.
NoValidId(f) == f.id = <<>> \/ f.id = <<-1>>

Ids(q) == { q[i].id : i \in 1..Len(q) }

AllValid(q) == \A i \in 1..Len(q) : ~NoValidId(q[i])

\* The step in which handle runs on a decoded collection without panicking.
HandleRuns == pc = "searchWait" /\ searchResult' = "decoded" /\ pc' # "crashed"

\* C1: after every cycle whose fetch and decode succeed, lastFound is exactly the
\* FoundSet of that cycle, whether notify succeeded, failed, was skipped (silent) or
\* was not called.
C1_LastFoundIsFoundSet ==
    (pc = "select" /\ searchResult = "decoded") => lastFound = found

\* C1 witness: a cycle whose notification got a non-200 status has ended with the
\* cycle's non-empty FoundSet in lastFound.
C1_Witness ==
    /\ pc = "select"
    /\ searchResult = "decoded"
    /\ notifyRet = "status"
    /\ Len(found) > 0
    /\ prevOK
    /\ lastFound = found

\* C2: when the search round trip fails (transport error, timeout) or the body does
\* not decode, Check returns an error that main logs, no notification request is
\* issued, notify is not called and lastFound is left as it was.
C2_FetchFailureAborts ==
    [][(pc = "searchWait" /\ searchResult' \in {"error", "undecodable"})
         => /\ pc' = "select"
            /\ logged' \in {"fetch", "decode"}
            /\ notifySent' = 0
            /\ notifyRet' = "notcalled"
            /\ lastFound' = lastFound]_vars

\* C2 witness: a cycle ended on an undecodable body while lastFound still holds the
\* sites of an earlier cycle.
C2_Witness ==
    /\ pc = "select"
    /\ searchResult = "undecodable"
    /\ logged = "decode"
    /\ Len(lastFound) > 0
    /\ notifySent = 0

\* C3 (as claimed): a cycle whose notification failed has reported that failure on
\* the error stream.
C3_NotifyErrorLogged ==
    (pc = "select" /\ notifyRet \in {"transport", "status"}) => logged # "none"

\* C4: a found site whose identifier is missing or -1 is never alreadyFound,
\* against the old and against the new lastFound, and is put in foundNew.
C4_SentinelAlwaysNew ==
    \A i \in 1..Len(found) :
        (NoValidId(found[i]) /\ searchResult = "decoded")
          => /\ ~alreadyFound(found[i], lastFound)
             /\ InSeq(found[i], foundNew)

\* C4 witness: a notification is in flight for a site without identifier that
\* lastFound already holds.
C4_Witness ==
    /\ pc = "notifyWait"
    /\ \E i \in 1..Len(found) :
          /\ NoValidId(found[i])
          /\ InSeq(found[i], lastFound)
          /\ InSeq(found[i], foundNew)

\* C5 (as claimed): while handle waits for notify, every found site whose identifier
\* is the identifier of no site in lastFound (the previous FoundSet) is in foundNew.
C5_UnseenIsNew ==
    pc = "notifyWait"
      => \A i \in 1..Len(found) :
            (\A j \in 1..Len(lastFound) : lastFound[j].id # found[i].id)
              => InSeq(found[i], foundNew)

\* C6: handle leaves out of foundNew every found site with a valid identifier that
\* is the identifier of some site in lastFound (the previous FoundSet).
C6_SeenIsExcluded ==
    [][HandleRuns
         => \A i \in 1..Len(found') :
               (/\ ~NoValidId(found'[i])
                /\ \E j \in 1..Len(lastFound) : lastFound[j].id = found'[i].id)
                 => (alreadyFound(found'[i], lastFound) /\ ~InSeq(found'[i], foundNew'))]_vars

\* C6 witness: a notification is in flight for some new site while another found
\* site, whose valid identifier lastFound holds, was left out of foundNew.
C6_Witness ==
    /\ pc = "notifyWait"
    /\ \E i \in 1..Len(found) :
          /\ ~NoValidId(found[i])
          /\ \E j \in 1..Len(lastFound) : lastFound[j].id = found[i].id
          /\ ~InSeq(found[i], foundNew)

\* C7: when the cycle before succeeded and this cycle's FoundSet has the same
\* identifiers, all of them valid, this cycle's foundNew is empty and it issues no
\* notification request.
C7_SameIdsNoNotify ==
    [][(/\ HandleRuns
        /\ prevOK
        /\ AllValid(found)
        /\ AllValid(found')
        /\ Ids(found') = Ids(found))
         => /\ foundNew' = <<>>
            /\ notifySent' = 0
            /\ notifyRet' = "notcalled"
            /\ pc' = "select"]_vars

\* C7 witness: with notifications on, a cycle after a successful one found sites,
\* all with valid identifiers that lastFound held, and notified nothing.
C7_Witness ==
    /\ pc = "select"
    /\ ~cfg.silent
    /\ cfg.notificationRequestOK
    /\ prevOK
    /\ searchResult = "decoded"
    /\ Len(found) = MaxFeatures
    /\ AllValid(found)
    /\ foundNew = <<>>
    /\ notifySent = 0

\* C8: with silent set no notification request is ever issued or in flight, and
\* notify, when called, returns nil.
C8_SilentNeverNotifies ==
    cfg.silent
      => /\ notifySent = 0
         /\ pc # "notifyWait"
         /\ notifyRet \in {"notcalled", "nil"}

\* C8 witness: with silent set, a cycle with new sites has ended and notify
\* returned nil.
C8_Witness ==
    /\ cfg.silent
    /\ pc = "select"
    /\ Len(foundNew) > 0
    /\ notifyRet = "nil"
    /\ notifySent = 0

\* C9 (as claimed): every cycle with a request in flight comes to its end, Check
\* returning to main's select (or the process ending).
C9_CycleCompletes ==
    (pc \in {"searchWait", "notifyWait"}) ~> (pc \in {"select", "exited", "crashed"})

\* C10 (as claimed): at the select, once the interrupt has been delivered, main
\* does not go round the loop again.
C10_NoCycleAfterInterrupt ==
    [][(pc = "select" /\ ctxDone) => pc' # "loop"]_vars

\* The step in which main calls Check again, after a cycle that has ended.
StartsLaterCycle == pc = "loop" /\ pc' # "loop" /\ searchResult # "none"

\* C11 (as claimed): at the start of every cycle after the first, the sites that
\* lastFound holds are the FoundSet of the cycle just before, which therefore
\* fetched and decoded.
C11_LastFoundIsOfPrecedingCycle ==
    [][(StartsLaterCycle /\ Len(lastFound) > 0)
         => (searchResult = "decoded" /\ lastFound = found)]_vars

\* C11 (amended): whenever main is about to run or is running the search of a
\* cycle, lastFound is the FoundSet of the most recent cycle that fetched and
\* decoded (found, which only handle assigns); a failed fetch leaves it in place.
C11_LastFoundIsOfLastDecodedCycle ==
    pc \in {"loop", "searchWait"} => lastFound = found

\* C11 witness: a cycle has started right after one that failed to fetch, while
\* lastFound still holds the sites of the successful cycle before that.
C11_Witness ==
    /\ pc = "searchWait"
    /\ ~prevOK
    /\ Len(lastFound) > 0
    /\ lastFound = found

InCycle == pc \in {"loop", "searchWait", "notifyWait"}

\* C12 (as claimed): no tick fires or is buffered while a cycle is in progress.
C12_NoTickDuringCycle ==
    [][(pc \in {"searchWait", "notifyWait"}) => (tickPending' = tickPending)]_vars

\* C12 (amended): main goes round the loop only from the select, after Check has
\* returned, and only by taking the buffered tick; the cycle itself never takes or
\* drops a tick, so one that fired during the cycle is still there at the select.
C12_CycleAfterCompletionOnTick ==
    [][/\ (pc' = "loop" /\ pc # "loop") => (pc = "select" /\ tickPending /\ ~tickPending')
       /\ (InCycle /\ tickPending) => tickPending']_vars

\* C12 witness: a tick is buffered while the notification request of a cycle is
\* in flight.
C12_Witness ==
    /\ pc = "notifyWait"
    /\ tickPending
    /\ notifySent = 1

\* C13: when the notification round trip brought a response, notify returned nil
\* exactly if its status was 200, and the status error for any other status (201
\* included); notify returns nil otherwise only when silent is set.
C13_OnlyStatus200Succeeds ==
    /\ notifyResp.kind = "response"
         => /\ (notifyRet = "nil") <=> (notifyResp.status = StatusOK)
            /\ (notifyResp.status # StatusOK) => (notifyRet = "status")
    /\ notifyRet = "nil"
         => (cfg.silent \/ (notifyResp.kind = "response" /\ notifyResp.status = StatusOK))

\* C13 witness: the notification endpoint answered 201 and notify returned the
\* status error.
C13_Witness ==
    /\ pc = "select"
    /\ notifyResp.kind = "response"
    /\ notifyResp.status = 201
    /\ notifyRet = "status"

\* The sites the spec's filter lets through, whatever their distance.
PassesAvailability(f) == f.avail /\ (cfg.includeSecondDoseOnly \/ ~f.second)

InRange(f) == PassesAvailability(f) /\ f.dist <= Distance

\* handle ran on this cycle's collection and reached its summary line.
HandleDone == searchResult = "decoded" /\ pc # "crashed"

\* C14: whenever handle has run through a decoded collection, found is the
\* sub-sequence, in input order, of its sites that are available, not second-dose
\* -only unless include-second-dose-only is set, and at most Distance away.
C14_FoundIsFilter ==
    HandleDone => found = SelectSeq(fc, InRange)

\* C14 witness: of an unavailable site in range and a site exactly at the radius,
\* handle found the second alone.
C14_Witness ==
    /\ HandleDone
    /\ Len(fc) = 2
    /\ ~fc[1].avail /\ fc[1].dist < Distance
    /\ fc[2].avail /\ fc[2].dist = Distance
    /\ found = <<fc[2]>>

\* C20 (as claimed): handle gets through every decoded collection; the process
\* does not die in it.
C20_HandleNeverCrashes ==
    searchResult = "decoded" => pc # "crashed"

Count(q, Test(_)) == Cardinality({ i \in 1..Len(q) : Test(q[i]) })

\* C15: whenever handle has run through a decoded collection, available is the
\* number of its sites passing the availability and second-dose tests whatever
\* their distance, the number found is the number of those in range, and
\* found <= available <= total, total being the number of sites in the collection.
C15_Counters ==
    HandleDone
      => /\ available = Count(fc, PassesAvailability)
         /\ Len(found) = Count(fc, InRange)
         /\ Len(found) <= available
         /\ available <= total

\* C15 witness: for one available site in range, one available 50 km away and one
\* unavailable site in range, handle reports found 1, available 2, total 3.
C15_Witness ==
    /\ HandleDone
    /\ fc = << Site(<<1>>, TRUE, FALSE, TRUE, 5000),
               Site(<<1>>, TRUE, FALSE, TRUE, 50000),
               Site(<<2>>, FALSE, FALSE, TRUE, 1000) >>
    /\ Len(found) = 1
    /\ available = 2
    /\ total = 3

Reported(e) == InSeq(e, invalid)

\* C16: once validateParams has run, the errors it returned are exactly the
\* violated requirements (latitude unset, longitude unset, notification URL empty
\* while silent is off), each once; main exits with 3 if there is any and goes on
\* to the loop if there is none.
C16_AllViolationsReported ==
    (pc = "loop" \/ exitCode = <<3>>)
      => /\ Reported(errMissingLatitude) <=> ~params.latitudeSet
         /\ Reported(errMissingLongitude) <=> ~params.longitudeSet
         /\ Reported(errMissingNotificationURL)
              <=> (~cfg.silent /\ params.notificationURL = "")
         /\ Len(invalid) = Cardinality({ invalid[i] : i \in 1..Len(invalid) })
         /\ (exitCode = <<3>>) <=> (Len(invalid) > 0)

\* C16 witness: with latitude and longitude unset, silent off and an empty
\* notification URL, main exited with 3 and all three errors.
C16_Witness ==
    /\ exitCode = <<3>>
    /\ ~cfg.silent
    /\ invalid = <<errMissingLatitude, errMissingLongitude, errMissingNotificationURL>>

\* C17 (as claimed): when no config file is found, main does not exit with 2: the
\* error is ignored and startup goes on to validateParams.
C17_MissingConfigFileIgnored ==
    params.configFile = "notfound" => exitCode # <<2>>

\* The notification requests of the cycle that last started, when silent is false
\* and handle did not crash: at most one, and one exactly when the search response
\* was decoded, foundNew is not empty and, if buildable is asked for, http.NewRequest
\* accepted the configured method and URL.
NotifiesIffNew(buildable) ==
    /\ notifySent <= 1
    /\ (~cfg.silent /\ pc # "crashed")
          => (notifySent = 1 <=> /\ searchResult = "decoded"
                                 /\ Len(foundNew) > 0
                                 /\ (buildable => cfg.notificationRequestOK))

\* The search response is decoded and handled while lastFound is still empty, as
\* it is until the first cycle that reaches the end of handle.
HandledFromEmpty ==
    /\ pc = "searchWait"
    /\ lastFound = <<>>
    /\ searchResult' = "decoded"
    /\ pc' # "crashed"
    /\ ~cfg.silent

\* C18 (as claimed): every cycle issues at most one notification request, and with
\* silent false it issues one exactly when the fetch succeeded and some found site
\* is classified as new; a cycle handled from an empty lastFound notifies exactly
\* when its found list is not empty.
C18_NotifiesIffNew ==
    [][/\ NotifiesIffNew(FALSE)'
       /\ HandledFromEmpty => (notifySent' = 1 <=> Len(found') > 0)]_vars

\* C18 (amended): every cycle issues at most one notification request, and with
\* silent false it issues one exactly when the fetch succeeded, some found site is
\* classified as new and the notification request could be built; a cycle handled
\* from an empty lastFound whose request can be built notifies exactly when its
\* found list is not empty.
C18_NotifiesIffNewAndBuildable ==
    [][/\ NotifiesIffNew(TRUE)'
       /\ (HandledFromEmpty /\ cfg.notificationRequestOK)
             => (notifySent' = 1 <=> Len(found') > 0)]_vars

\* C18 witness: a cycle found two new sites and sent one notification request.
C18_Witness ==
    /\ ~cfg.silent
    /\ pc = "select"
    /\ Len(foundNew) = 2
    /\ notifySent = 1


\* The identifiers of the history, none where no history is kept.
DroppedIds == IF dropped = <<>> THEN {} ELSE dropped[1]

\* The sites of found' whose identifier was found two cycles ago and dropped by the
\* cycle just before, in the step in which handle runs after two cycles that were
\* handled to their end.
Returning ==
    IF HandleRuns /\ prevOK
    THEN { i \in 1..Len(found') : found'[i].id \in DroppedIds }
    ELSE {}

\* C19 (as claimed): a site with a valid identifier that cycle n found, the successful
\* cycle n+1 did not find and cycle n+2 finds again is in foundNew in cycle n+2, and
\* with silent false that cycle issues a notification request (if one can be built).
C19_ReturningSiteIsNew ==
    [][\A i \in Returning :
          /\ InSeq(found'[i], foundNew')
          /\ (~cfg.silent /\ cfg.notificationRequestOK) => notifySent' = 1]_vars


=============================================================================
